---- MODULE Spec2Model ----
(***************************************************************************)
(* EnviroSense dashboard (src/firebase.js): a timer polls a JSON endpoint, *)
(* normalizes record timestamps, keeps the LAST_N newest readings and      *)
(* renders a latest tile, two tables and two annotated line charts.          *)
(*                                                                         *)
(* Representation                                                          *)
(*   - a JS string is a sequence of one-character strings;                 *)
(*   - a JS value that may be undefined/null is a record tagged by `kind`; *)
(*   - a Date is [kind |-> "date", days, secs]: whole days and seconds of  *)
(*     the day since the epoch, UTC (two fields keep 32-bit arithmetic);   *)
(*   - a number with decimals is an integer count of thousandths.          *)
(***************************************************************************)
EXTENDS Integers, Sequences, FiniteSets, TLC

(* ----------------------------- configuration --------------------------- *)

LAST_N == 12

TEMPERATURE_THRESHOLDS ==
  << [label |-> "Higher than Usual",  value |-> 32, color |-> "#ef4444"],
     [label |-> "Normal Temperature", value |-> 25, color |-> "#10b981"],
     [label |-> "Lower than Usual",   value |-> 18, color |-> "#3b82f6"] >>

LIGHT_THRESHOLDS ==
  << [label |-> "Outdoor",   value |-> 1000, color |-> "#f59e0b"],
     [label |-> "Indoor",    value |-> 300,  color |-> "#22c55e"],
     [label |-> "Dark Room", value |-> 10,   color |-> "#3b82f6"],
     [label |-> "No light",  value |-> 0,    color |-> "#6b7280"] >>

(* ------------------------------ JS values ------------------------------ *)

Str(s)    == [kind |-> "str",   s |-> s]
Undefined == [kind |-> "undef", s |-> <<>>]

Num(n)    == [kind |-> "num",   n |-> n]
NotANum   == [kind |-> "undef", n |-> 0]

Null          == [kind |-> "null", days |-> 0, secs |-> 0]
DateOf(d, s)  == [kind |-> "date", days |-> d, secs |-> s]
InvalidDate   == [kind |-> "nan",  days |-> 0, secs |-> 0]

Digits     == {"0", "1", "2", "3", "4", "5", "6", "7", "8", "9"}
Whitespace == {" ", "\t", "\n"}

DigitSeq == << "0", "1", "2", "3", "4", "5", "6", "7", "8", "9" >>

DigitVal(c) == (CHOOSE i \in 1..10 : DigitSeq[i] = c) - 1

AllDigits(s) == \A i \in 1..Len(s) : s[i] \in Digits

SetMin(S) == CHOOSE x \in S : \A y \in S : x <= y
SetMax(S) == CHOOSE x \in S : \A y \in S : x >= y

(* The single element of a one-element set: binds a value once *)
Only(S) == CHOOSE x \in S : TRUE

(* String.prototype.trim *)
Trim(s) ==
  LET keep == {i \in 1..Len(s) : s[i] \notin Whitespace}
  IN  IF keep = {} THEN <<>> ELSE SubSeq(s, SetMin(keep), SetMax(keep))

(* parseInt(s, 10) of a string of one to four digits *)
ParseIntSmall(s) ==
  LET pad == [i \in 1..4 |-> IF i + Len(s) > 4 THEN DigitVal(s[i + Len(s) - 4]) ELSE 0]
  IN  1000 * pad[1] + 100 * pad[2] + 10 * pad[3] + pad[4]

(* The pieces of s between its "-" characters *)
SplitDash(s) ==
  LET cuts   == {0} \cup {i \in 1..Len(s) : s[i] = "-"} \cup {Len(s) + 1}
      cut(k) == CHOOSE x \in cuts : Cardinality({y \in cuts : y < x}) = k - 1
  IN  [k \in 1..(Cardinality(cuts) - 1) |-> SubSeq(s, cut(k) + 1, cut(k + 1) - 1)]

(* ------------------------------- Date ---------------------------------- *)

SecsPerDay == 24 * 60 * 60

(* A time value is valid up to 8.64e15 ms, i.e. 100,000,000 days.          *)
MaxDays == 100 * 1000 * 1000

(* new Date(parseInt(s, 10) * 1000) for a digit string s: long division of *)
(* the seconds by 86400, the day count saturating just above MaxDays.      *)
EpochStep(qr, digit) ==
  Only({ << IF q1 > MaxDays THEN MaxDays + 1 ELSE q1, n % SecsPerDay >> :
         n  \in {qr[2] * 10 + digit},
         q1 \in {qr[1] * 10 + ((qr[2] * 10 + digit) \div SecsPerDay)} })

EpochDivide(s) ==
  LET acc[i \in 0..Len(s)] ==
        IF i = 0 THEN << 0, 0 >> ELSE EpochStep(acc[i - 1], DigitVal(s[i]))
  IN  acc[Len(s)]

DateFromEpochDigits(s) ==
  Only({ IF qr[1] < MaxDays \/ (qr[1] = MaxDays /\ qr[2] = 0)
           THEN DateOf(qr[1], qr[2])
           ELSE InvalidDate : qr \in {EpochDivide(s)} })

(* Days since the epoch of a proleptic Gregorian date; m is 1..12 and d    *)
(* may lie outside the month (MakeDay carries the excess over).            *)
DaysOfYearOfEra(yoe) == yoe * 365 + yoe \div 4 - yoe \div 100

DaysOfShiftedYear(y1, doy) ==
  (y1 \div 400) * 146097 + DaysOfYearOfEra(y1 % 400) + doy - 719468

DaysFromCivil(y, m, d) ==
  DaysOfShiftedYear(IF m <= 2 THEN y - 1 ELSE y,
                    (153 * (IF m > 2 THEN m - 3 ELSE m + 9) + 2) \div 5 + d - 1)

(* A time value within the valid range, or an invalid Date *)
TimeClip(days, secs) ==
  IF days < MaxDays /\ days > -MaxDays THEN DateOf(days, secs) ELSE InvalidDate

MakeDate(dayNo, tod) == TimeClip(dayNo + (tod \div SecsPerDay), tod % SecsPerDay)

(* Years 0..99 mean 1900 + year *)
FullYear(year) == IF year >= 0 /\ year <= 99 THEN 1900 + year ELSE year

(* new Date(year, month, day, hour, min, sec) in a zone `zone` minutes east  *)
(* of UTC: out-of-range components carry over.                             *)
DateFromComponents(year, month, day, hour, min, sec, zone) ==
  MakeDate(DaysFromCivil(FullYear(year) + (month \div 12), (month % 12) + 1, 1)
             + day - 1,
           hour * 3600 + min * 60 + sec - zone * 60)

IsNaNTime(d) == d.kind = "nan"

(* --------------------- parseTimestampFlexible -------------------------- *)

(* /^\d{9,}$/ *)
MatchesEpoch(s) == Len(s) >= 9 /\ AllDigits(s)

(* /^(\d{1,2})-(\d{1,2})-(\d{4})-(\d{1,2})-(\d{1,2})-(\d{1,2})$/ on the    *)
(* pieces p of the string                                                  *)
MatchesLiteral(p) ==
  /\ Len(p) = 6
  /\ \A i \in 1..6 : AllDigits(p[i])
  /\ \A i \in {1, 2, 4, 5, 6} : Len(p[i]) \in {1, 2}
  /\ Len(p[3]) = 4

(* isNaN(d.getTime()) ? null : d *)
NullIfNaN(d) == IF IsNaNTime(d) THEN Null ELSE d

(* Case B: n holds day, month, year, hour, min, sec as parsed *)
DateFromLiteral(n, zone) ==
  DateFromComponents(n[3], n[2] - 1, n[1], n[4], n[5], n[6], zone)

ParseTrimmed(s, m, zone) ==
  IF MatchesEpoch(s) THEN NullIfNaN(DateFromEpochDigits(s))
  ELSE IF MatchesLiteral(m)
    THEN NullIfNaN(DateFromLiteral([i \in 1..6 |-> ParseIntSmall(m[i])], zone))
  ELSE Null

(* if (ts == null) return null; the keys and timestamp fields of the pool *)
(* are strings or undefined                                               *)
parseTimestampFlexible(ts, zone) ==
  IF ts.kind # "str" THEN Null
  ELSE Only({ ParseTrimmed(s, SplitDash(s), zone) : s \in {Trim(ts.s)} })

(* ------------------------------ formatting ----------------------------- *)

CivilOfMonth(y, mp, doy) ==
  [year  |-> y + (IF mp >= 10 THEN 1 ELSE 0),
   month |-> IF mp < 10 THEN mp + 3 ELSE mp - 9,
   day   |-> doy - (153 * mp + 2) \div 5 + 1]

CivilOfYear(era, yoe, doe) ==
  Only({ CivilOfMonth(yoe + era * 400, (5 * doy + 2) \div 153, doy) :
         doy \in {doe - DaysOfYearOfEra(yoe)} })

CivilOfEra(era, doe) ==
  CivilOfYear(era,
              (doe - doe \div 1460 + doe \div 36524 - doe \div 146096) \div 365,
              doe)

(* The Gregorian date of a day number *)
CivilFromDays(z) == CivilOfEra((z + 719468) \div 146097, (z + 719468) % 146097)

WallClock(c, tod) ==
  [year |-> c.year, month |-> c.month, day |-> c.day,
   hour12 |-> IF (tod \div 3600) % 12 = 0 THEN 12 ELSE (tod \div 3600) % 12,
   period |-> IF tod < 12 * 3600 THEN "AM" ELSE "PM",
   minute |-> (tod % 3600) \div 60, second |-> tod % 60]

(* The local wall-clock fields of a Date in a zone zone minutes east of UTC *)
LocalFields(d, zone) ==
  Only({ WallClock(c, (d.secs + zone * 60) % SecsPerDay) :
         c \in {CivilFromDays(d.days + ((d.secs + zone * 60) \div SecsPerDay))} })

(* "10:42:05 AM, September 7, 2025" *)
formatTsLong(d, zone) ==
  Only({ [hour |-> f.hour12, minute |-> f.minute, second |-> f.second,
          period |-> f.period, month |-> f.month, day |-> f.day, year |-> f.year,
          monthStyle |-> "long"] : f \in {LocalFields(d, zone)} })

(* "10:42:05 AM, Sep 7": no year *)
formatTsShort(d, zone) ==
  Only({ [hour |-> f.hour12, minute |-> f.minute, second |-> f.second,
          period |-> f.period, month |-> f.month, day |-> f.day,
          monthStyle |-> "short"] : f \in {LocalFields(d, zone)} })

(* Number.prototype.toFixed(2) on a count of thousandths: hundredths,      *)
(* the larger neighbour on a tie.                                          *)
toFixed2(n) == (n + 5) \div 10

Text(n, unit) == [hundredths |-> toFixed2(n), unit |-> unit]

(* ------------------------------- inputs -------------------------------- *)

(* Records a response may carry, in Object.entries order: integer-index    *)
(* keys ascending, then the other keys in insertion order.                 *)
Pool ==
  <<
  (*  1 X2 *) [key |-> <<"1", "2", "3", "4", "5", "6", "7", "8">>,
     v |-> [timestamp |-> Str(<<"2", "0", "2", "5", "-", "0", "9", "-", "0", "7", "T", "1", "0", ":", "4", "2", ":", "0", "5">>), temperature |-> Num(21310), light_lux |-> Num(120040)]],
  (*  2 M1 *) [key |-> <<"1", "7", "5", "7", "1", "0", "0", "0", "1", "1">>,
     v |-> [timestamp |-> Undefined, temperature |-> Num(22470), light_lux |-> NotANum]],
  (*  3 E1 *) [key |-> <<"1", "7", "5", "7", "1", "6", "0", "0", "1", "3">>,
     v |-> [timestamp |-> Undefined, temperature |-> Num(23110), light_lux |-> Num(250320)]],
  (*  4 E2 *) [key |-> <<"1", "7", "5", "7", "2", "0", "0", "0", "1", "7">>,
     v |-> [timestamp |-> Undefined, temperature |-> Num(24890), light_lux |-> Num(310760)]],
  (*  5 E3 *) [key |-> <<"1", "7", "5", "7", "2", "2", "0", "1", "3", "7">>,
     v |-> [timestamp |-> Undefined, temperature |-> Num(25340), light_lux |-> Num(402180)]],
  (*  6 E4 *) [key |-> <<"1", "7", "5", "7", "2", "4", "1", "7", "3", "3">>,
     v |-> [timestamp |-> Undefined, temperature |-> Num(31270), light_lux |-> Num(980610)]],
  (*  7 K1 *) [key |-> <<"1", "7", "5", "7", "2", "6", "0", "0", "1", "9">>,
     v |-> [timestamp |-> Str(<<"1", "-", "1", "-", "2", "0", "2", "0", "-", "0", "-", "0", "-", "0">>), temperature |-> Num(33020), light_lux |-> Num(1004230)]],
  (*  8 E5 *) [key |-> <<"1", "7", "5", "7", "3", "0", "0", "0", "2", "3">>,
     v |-> [timestamp |-> Undefined, temperature |-> Num(17640), light_lux |-> Num(8420)]],
  (*  9 L1 *) [key |-> <<"7", "-", "9", "-", "2", "0", "2", "5", "-", "1", "0", "-", "4", "2", "-", "5">>,
     v |-> [timestamp |-> Undefined, temperature |-> Num(26180), light_lux |-> Num(512090)]],
  (* 10 L2 *) [key |-> <<"6", "-", "9", "-", "2", "0", "2", "5", "-", "2", "3", "-", "5", "9", "-", "5", "9">>,
     v |-> [timestamp |-> Undefined, temperature |-> Num(19730), light_lux |-> Num(0)]],
  (* 11 L3 *) [key |-> <<"0", "7", "-", "0", "9", "-", "2", "0", "2", "5", "-", "0", "3", "-", "0", "5", "-", "0", "9">>,
     v |-> [timestamp |-> Undefined, temperature |-> Num(18210), light_lux |-> Num(9870)]],
  (* 12 L4 *) [key |-> <<"8", "-", "9", "-", "2", "0", "2", "5", "-", "0", "-", "0", "-", "1">>,
     v |-> [timestamp |-> Undefined, temperature |-> Num(20060), light_lux |-> Num(3140)]],
  (* 13 L5 *) [key |-> <<"3", "1", "-", "0", "8", "-", "2", "0", "2", "5", "-", "1", "2", "-", "3", "0", "-", "4", "5">>,
     v |-> [timestamp |-> Undefined, temperature |-> Num(29410), light_lux |-> Num(1203660)]],
  (* 14 W1 *) [key |-> <<" ", "1", "7", "5", "7", "2", "7", "0", "0", "2", "9", "\n">>,
     v |-> [timestamp |-> Undefined, temperature |-> Num(27830), light_lux |-> Num(640270)]],
  (* 15 F1 *) [key |-> <<"-", "O", "Z", "q", "3">>,
     v |-> [timestamp |-> Str(<<"1", "7", "5", "7", "2", "5", "0", "0", "3", "1">>), temperature |-> Num(28560), light_lux |-> Num(700130)]],
  (* 16 F2 *) [key |-> <<"r", "e", "a", "d", "i", "n", "g", "_", "7">>,
     v |-> [timestamp |-> Str(<<"7", "-", "9", "-", "2", "0", "2", "5", "-", "8", "-", "1", "5", "-", "3", "0">>), temperature |-> Num(30120), light_lux |-> Num(845910)]],
  (* 17 X1 *) [key |-> <<"a", "b", "c">>,
     v |-> [timestamp |-> Undefined, temperature |-> Num(22220), light_lux |-> Num(111110)]],
  (* 18 B1 *) [key |-> <<"9", "9", "9", "9", "9", "9", "9", "9", "9", "9", "9", "9", "9">>,
     v |-> [timestamp |-> Undefined, temperature |-> Num(23230), light_lux |-> Num(121210)]],
  (* 19 R1 *) [key |-> <<"3", "2", "-", "1", "3", "-", "2", "0", "2", "5", "-", "1", "-", "1", "-", "1">>,
     v |-> [timestamp |-> Undefined, temperature |-> Num(24240), light_lux |-> Num(131310)]],
  (* 20 D1 *) [key |-> <<"0", "7", "-", "0", "9", "-", "2", "0", "2", "5", "-", "1", "0", "-", "4", "2", "-", "0", "5">>,
     v |-> [timestamp |-> Undefined, temperature |-> Num(26990), light_lux |-> Num(520440)]]
  >>

PoolIdx == 1..Len(Pool)

(* Records with distinct valid timestamps and numeric metrics *)
Bulk == {3, 4, 5, 6, 7, 8, 9, 10, 11, 12, 13, 14, 15, 16}

DatasetIdx ==
     {{}, {1, 17, 18}, {1, 6, 17}}
  \cup {{i} : i \in {2, 6, 7, 15, 19}}
  \cup {{6, 9}, {9, 20}, {2, 6}}
  \cup {Bulk \cup T : T \in {{}, {1, 2, 17, 18, 19, 20}}}
  \cup {Bulk \ {13, 14}}

(* The object holding the pool records of S *)
ObjectOf(S) ==
  [k \in 1..Cardinality(S) |->
     Pool[CHOOSE i \in S : Cardinality({j \in S : j < i}) = k - 1]]

(* The decoded body of a response: null, or an object given by its         *)
(* entries; `id` names the response (the pool indices it carries).         *)
NullId        == {0}
JsonNull      == [kind |-> "null",   id |-> NullId, entries |-> <<>>]
JsonObject(S) == [kind |-> "object", id |-> S,      entries |-> ObjectOf(S)]

ResponseIds == {NullId} \cup DatasetIdx

ResponseOf(id) == IF id = NullId THEN JsonNull ELSE JsonObject(id)

Responses == {ResponseOf(id) : id \in ResponseIds}


(* ------------------------- ingestion pipeline -------------------------- *)

(* parseTimestampFlexible(key) || parseTimestampFlexible(v?.timestamp):    *)
(* a Date object is truthy, null is not.                                   *)
ResolveTimeFieldFirst(key, v, zone) ==
  Only({ IF f # Null THEN f ELSE parseTimestampFlexible(Str(key), zone) :
         f \in {parseTimestampFlexible(v.timestamp, zone)} })

ResolveTime(key, v, zone) ==
  Only({ IF k # Null THEN k ELSE parseTimestampFlexible(v.timestamp, zone) :
         k \in {parseTimestampFlexible(Str(key), zone)} })

(* Object.entries(data).map(([key, v]) => ({ key, v, dt })) *)
MapEntries(data, zone) ==
  [i \in 1..Len(data) |->
     [key |-> data[i].key, v |-> data[i].v,
      dt  |-> ResolveTime(data[i].key, data[i].v, zone)]]

KeepAll(e) == TRUE

(* e => e.dt && !isNaN(e.dt.getTime()) *)
KeepEntry(e) == e.dt # Null /\ ~IsNaNTime(e.dt)

FilterEntries(es) == SelectSeq(es, KeepEntry)

(* The sign of a.dt - b.dt *)
Earlier(a, b) ==
  a.days < b.days \/ (a.days = b.days /\ a.secs < b.secs)

ComesBeforeAscending(b, a) == Earlier(b.dt, a.dt)

(* (a, b) => b.dt - a.dt is positive: b must come before a *)
ComesBefore(b, a) == Earlier(a.dt, b.dt)

(* Array.prototype.sort is stable: an entry lands behind the entries that  *)
(* must come before it and behind the earlier entries it ties with.        *)
SortRank(es, i) ==
  1 + Cardinality({j \in 1..Len(es) :
                     \/ ComesBefore(es[j], es[i])
                     \/ j < i /\ ~ComesBefore(es[i], es[j])})

SortEntries(es) ==
  [k \in 1..Len(es) |-> es[CHOOSE i \in 1..Len(es) : SortRank(es, i) = k]]

SliceNothing(es) == es

(* .slice(0, LAST_N) *)
SliceEntries(es) == SubSeq(es, 1, IF Len(es) < LAST_N THEN Len(es) ELSE LAST_N)

WindowOf(mapped) == SliceEntries(SortEntries(FilterEntries(mapped)))

Reverse(q) == [i \in 1..Len(q) |-> q[Len(q) + 1 - i]]

TzOffsets == {0, 360}

(* What lines 101-109 compute from each response, evaluated once *)
DecodedAt(z, id) ==
  Only({ [mapped |-> mapped, entries |-> WindowOf(mapped)] :
         mapped \in {MapEntries(ResponseOf(id).entries, z)} })

Decoded == [z \in TzOffsets |-> [id \in ResponseIds |-> DecodedAt(z, id)]]

(* --------------------------- presentation ------------------------------ *)

Mounts == {"latest_time", "latest_temperature", "latest_light",
           "temperature_table", "light_table",
           "temperature_chart", "light_chart"}

(* The content of an element: <<>> while untouched, << c >> once set *)
EmptyTable == [header |-> <<>>, rows |-> <<>>]

MaxInstances == 4

ChartIds == 1..MaxInstances

FreeSlot == [state |-> "free", canvas |-> "", labels |-> <<>>, datasets |-> <<>>,
             lines |-> <<>>]

IsNumber(x) == x.kind = "num"

Threw(st)    == [st |-> st, threw |-> TRUE]
Returned(st) == [st |-> st, threw |-> FALSE]

(* document.getElementById(id).innerText = text *)
SetInnerText(st, id, text) ==
  [st EXCEPT !.tile[id] = << text >>, !.touched = @ \cup {id}]

(* updateLatest: three assignments; a missing element or a non-number      *)
(* value raises a TypeError at its assignment.                             *)
SetLatestLight(st, dom, values) ==
  IF "latest_light" \notin dom \/ ~IsNumber(values.light_lux) THEN Threw(st)
  ELSE Returned(SetInnerText(st, "latest_light", Text(values.light_lux.n, "lux")))

SetLatestTemperature(st, dom, values) ==
  IF "latest_temperature" \notin dom \/ ~IsNumber(values.temperature) THEN Threw(st)
  ELSE SetLatestLight(
         SetInnerText(st, "latest_temperature", Text(values.temperature.n, "C")),
         dom, values)

updateLatest(st, dom, dateObj, values, zone) ==
  IF "latest_time" \notin dom THEN Threw(st)
  ELSE SetLatestTemperature(
         SetInnerText(st, "latest_time", formatTsLong(dateObj, zone)),
         dom, values)

Metric(v, key) == IF key = "temperature" THEN v.temperature ELSE v.light_lux

(* The number of leading entries whose metric is a number *)
NumericPrefix(es, key) ==
  LET bad == {i \in 1..Len(es) : ~IsNumber(Metric(es[i].v, key))}
  IN  IF bad = {} THEN Len(es) ELSE SetMin(bad) - 1

TableRow(e, key, unit, zone) ==
  [ts |-> formatTsShort(e.dt, zone), value |-> Text(Metric(e.v, key).n, unit)]

(* updateTable: header, then one row appended per entry; toFixed on a      *)
(* non-number raises after the rows before it were appended.               *)
updateTable(st, dom, tableId, es, key, unit, zone) ==
  IF tableId \notin dom THEN [st |-> st, threw |-> FALSE]
  ELSE
    LET k    == NumericPrefix(es, key)
        rows == [i \in 1..k |-> TableRow(es[i], key, unit, zone)]
    IN  [st |-> [st EXCEPT !.tables[tableId] = [header |-> << key >>, rows |-> rows],
                           !.touched = @ \cup {tableId}],
         threw |-> k < Len(es)]

MainDataset(label, values, color) ==
  [label |-> label, data |-> values, borderColor |-> color, order |-> 1]

(* thresholds.map(t => ({ label, data: [NaN], borderColor, order: 99 })) *)
ThresholdLegendDatasets(thresholds) ==
  [i \in 1..Len(thresholds) |->
     [label |-> thresholds[i].label, data |-> << NotANum >>,
      borderColor |-> thresholds[i].color, order |-> 99]]

LeaveChart(registry, h) == registry

(* if (isTemp && tempChart) tempChart.destroy(); likewise lightChart *)
DestroyChart(registry, h) ==
  IF h = 0 THEN registry ELSE [registry EXCEPT ![h].state = "destroyed"]

FreeIds(registry) == {i \in ChartIds : registry[i].state = "free"}

(* An instance that is destroyed and no longer referenced is collected *)
Collect(registry, handles) ==
  [i \in ChartIds |->
     IF registry[i].state = "destroyed" /\ i \notin handles THEN FreeSlot ELSE registry[i]]

(* drawChart: skip without a canvas; destroy the instance the handle       *)
(* holds, create the next and store it in the handle.                      *)
drawChart(st, dom, canvasId, label, labels, values, color) ==
  IF canvasId \notin dom THEN st
  ELSE
    LET isTemp     == canvasId = "temperature_chart"
        thresholds == IF isTemp THEN TEMPERATURE_THRESHOLDS ELSE LIGHT_THRESHOLDS
        old        == IF isTemp THEN st.tempChart ELSE st.lightChart
        destroyed  == DestroyChart(st.charts, old)
        id         == CHOOSE i \in FreeIds(destroyed) :
                        \A j \in FreeIds(destroyed) : i <= j
        newChart   == [state |-> "live", canvas |-> canvasId, labels |-> labels,
                       datasets |-> << MainDataset(label, values, color) >>
                                      \o ThresholdLegendDatasets(thresholds),
                       lines |-> thresholds]
        created    == [destroyed EXCEPT ![id] = newChart]
        tempNew    == IF isTemp THEN id ELSE st.tempChart
        lightNew   == IF isTemp THEN st.lightChart ELSE id
    IN  [st EXCEPT !.charts = Collect(created, {tempNew, lightNew}),
                   !.tempChart = tempNew, !.lightChart = lightNew,
                   !.touched = @ \cup {canvasId}]

(* The block cut short by a suspension after the first table *)
RenderSuspended(st, dom, es, zone) ==
  Only({ IF r1.threw THEN r1
         ELSE updateTable(r1.st, dom, "temperature_table", es, "temperature", "C", zone) :
         r1 \in {updateLatest(st, dom, es[1].dt, es[1].v, zone)} })

(* The rendering part of fetchData (lines 113-128); an exception leaves    *)
(* the rest of the block unexecuted.                                       *)
Render(st, dom, es, zone) ==
  LET labels      == Reverse([i \in 1..Len(es) |-> formatTsShort(es[i].dt, zone)])
      tempValues  == Reverse([i \in 1..Len(es) |-> es[i].v.temperature])
      lightValues == Reverse([i \in 1..Len(es) |-> es[i].v.light_lux])
      latest      == es[1]
  IN
  Only({ IF r1.threw THEN r1 ELSE
  Only({ IF r2.threw THEN r2 ELSE
  Only({ IF r3.threw THEN r3 ELSE
  Only({
  Only({ [st |-> c2, threw |-> FALSE] :
    c2 \in {drawChart(c1, dom, "light_chart", "Light (lux)",
                      labels, lightValues, "rgba(54,162,235,1)")} }) :
    c1 \in {drawChart(r3.st, dom, "temperature_chart", "Temperature (C)",
                      labels, tempValues, "rgba(255,99,132,1)")} }) :
    r3 \in {updateTable(r2.st, dom, "light_table", es, "light_lux", "lux", zone)} }) :
    r2 \in {updateTable(r1.st, dom, "temperature_table", es, "temperature", "C", zone)} }) :
    r1 \in {updateLatest(st, dom, latest.dt, latest.v, zone)} })

(* fetchData from the decoded body on (lines 98-131) *)
Process(st, dom, data, zone) ==
  IF data.kind = "null"
    THEN [st |-> st, outcome |-> "no_data", entries |-> <<>>]
  ELSE
    LET entries == Decoded[zone][data.id].entries
    IN  IF Len(entries) = 0
          THEN [st |-> st, outcome |-> "no_data", entries |-> entries]
        ELSE
          LET r == Render(st, dom, entries, zone)
          IN  [st |-> r.st, outcome |-> IF r.threw THEN "threw" ELSE "rendered",
               entries |-> entries]

(* ------------------- thresholdLinesPlugin.afterDatasetsDraw ------------ *)

NoScale       == [present |-> FALSE, min |-> 0, max |-> 0]
Scale(lo, hi) == [present |-> TRUE,  min |-> lo, max |-> hi]

Stroke(line) == [y |-> line.value, color |-> line.color, dash |-> << 6, 4 >>]

InRangeStrict(line, y) == line.value > y.min /\ line.value < y.max

(* !(line.value < y.min || line.value > y.max) *)
InRange(line, y) == ~(line.value < y.min \/ line.value > y.max)

(* The strokes one invocation of the hook puts on the canvas *)
afterDatasetsDraw(lines, y, hasArea) ==
  IF ~y.present \/ ~hasArea THEN <<>>
  ELSE LET visible == SelectSeq(lines, LAMBDA l : InRange(l, y))
       IN  [i \in 1..Len(visible) |-> Stroke(visible[i])]

(* Vertical ranges the chart library may hand to the hook *)
YScales ==
  {NoScale, Scale(10, 40), Scale(0, 1200), Scale(18, 32), Scale(19, 31),
   Scale(0, 25), Scale(11, 999), Scale(1000, 2000), Scale(-5, -1)}

(* ------------------------------ state ---------------------------------- *)

VARIABLES
  tz,          \* the browser's zone, minutes east of UTC
  mounts,      \* ids of the elements present in the document
  inFlight,    \* fetchData calls suspended at await fetch() / await res.json()
  tile,        \* innerText of latest_time, latest_temperature, latest_light
  tables,      \* content of temperature_table and light_table
  charts,      \* chart instances by id
  tempChart,   \* handle: an instance id, 0 for null
  lightChart,  \* handle: an instance id, 0 for null
  touched,     \* elements written by the cycle that completed last
  cycle,       \* the cycle that completed last: its outcome, its response and
               \* the number of other calls in flight when it completed
  shown,       \* the response of the last cycle that started rendering
  intact,      \* no cycle so far met a non-number metric in its entries
  fails,       \* fetch or decode failures counted so far, saturating
  lastDraw     \* the latest invocation of the threshold plugin

vars == << tz, mounts, inFlight, tile, tables, charts, tempChart,
           lightChart, touched, cycle, shown, intact, fails, lastDraw >>

page == << tile, tables, charts, tempChart, lightChart >>

MaxInFlight == 2
MaxFails    == 2

MountConfigs == {Mounts} \cup {Mounts \ {m} : m \in Mounts} \cup {{}}

NoResponse == {-1}

NoCycle == [outcome |-> "none", resp |-> NoResponse, others |-> 0]
NoDraw  == [canvas |-> "", y |-> NoScale, hasArea |-> FALSE, lines |-> <<>>,
            strokes |-> <<>>]

(* The state once the script has run: fetchData() was called once and is   *)
(* awaiting fetch(); setInterval is armed. The document offers the mount   *)
(* points of `configs`.                                                    *)
Loaded(configs) ==
  /\ tz \in TzOffsets
  /\ mounts \in configs
  /\ inFlight = 1
  /\ tile = [latest_time |-> <<>>, latest_temperature |-> <<>>, latest_light |-> <<>>]
  /\ tables = [t \in {"temperature_table", "light_table"} |-> EmptyTable]
  /\ charts = [i \in ChartIds |-> FreeSlot]
  /\ tempChart = 0
  /\ lightChart = 0
  /\ touched = {}
  /\ cycle = NoCycle
  /\ shown = NoResponse
  /\ intact = TRUE
  /\ fails = 0
  /\ lastDraw = NoDraw

Init == Loaded({Mounts})

(* setInterval(fetchData, REFRESH_INTERVAL): a tick calls fetchData, which *)
(* runs up to its first await.                                             *)
Tick ==
  /\ inFlight < MaxInFlight
  /\ inFlight' = inFlight + 1
  /\ UNCHANGED << tz, mounts, tile, tables, charts, tempChart,
                  lightChart, touched, cycle, shown, intact, fails, lastDraw >>

(* A catch block that blanks the tile *)
FailedBlanksTile(what) ==
  /\ inFlight > 0
  /\ inFlight' = inFlight - 1
  /\ cycle' = [outcome |-> what, resp |-> NoResponse, others |-> inFlight - 1]
  /\ touched' = {}
  /\ tile' = [latest_time |-> <<>>, latest_temperature |-> <<>>, latest_light |-> <<>>]
  /\ UNCHANGED << tz, mounts, tables, charts, tempChart, lightChart,
                  shown, intact, lastDraw >>

(* A rejected await lands in the catch block, which logs and returns *)
Failed(what) ==
  /\ inFlight > 0
  /\ inFlight' = inFlight - 1
  /\ cycle' = [outcome |-> what, resp |-> NoResponse, others |-> inFlight - 1]
  /\ touched' = {}
  /\ UNCHANGED << tz, mounts, tile, tables, charts, tempChart, lightChart,
                  shown, intact, lastDraw >>

(* fetch() rejects *)
FetchRejected == Failed("fetch_failed") /\ UNCHANGED fails

(* fetch() resolved and res.json() rejects *)
JsonRejected == Failed("decode_failed") /\ UNCHANGED fails

AllNumeric(es) ==
  \A i \in 1..Len(es) : IsNumber(es[i].v.temperature) /\ IsNumber(es[i].v.light_lux)

(* fetch() and res.json() resolve with `data`: the rest of fetchData runs  *)
(* to its end without another await.                                       *)
Deliver(data) ==
  /\ inFlight > 0
  /\ Cardinality(FreeIds(charts)) >= 2
  /\ \E r \in {Process([tile |-> tile, tables |-> tables, charts |-> charts,
                         tempChart |-> tempChart, lightChart |-> lightChart,
                         touched |-> {}],
                        mounts, data, tz)} :
         /\ tile' = r.st.tile
         /\ tables' = r.st.tables
         /\ charts' = r.st.charts
         /\ tempChart' = r.st.tempChart
         /\ lightChart' = r.st.lightChart
         /\ touched' = r.st.touched
         /\ cycle' = [outcome |-> r.outcome, resp |-> data.id, others |-> inFlight - 1]
         /\ shown' = IF r.outcome \in {"rendered", "threw"} THEN data.id ELSE shown
         /\ intact' = (intact /\ AllNumeric(r.entries))
  /\ inFlight' = inFlight - 1
  /\ UNCHANGED << tz, mounts, fails, lastDraw >>

JsonResolved == \E data \in Responses : Deliver(data)

Next == Tick \/ FetchRejected \/ JsonRejected \/ JsonResolved

Spec == Init /\ [][Next]_vars

(* ---- the same program in documents that lack mount points ---- *)

FewIds == {NullId, {1, 17, 18}, {6}, {6, 9}, {2, 6}, Bulk}

JsonResolvedFew == \E id \in FewIds : Deliver(ResponseOf(id))

CountFailure == fails' = IF fails < MaxFails THEN fails + 1 ELSE fails

FetchRejectedCounted == Failed("fetch_failed") /\ CountFailure

JsonRejectedCounted == Failed("decode_failed") /\ CountFailure

InitMounts == Loaded(MountConfigs)

NextMounts == Tick \/ FetchRejectedCounted \/ JsonRejectedCounted \/ JsonResolvedFew

SpecMounts == InitMounts /\ [][NextMounts]_vars

(* ---- the chart library draws a live chart (on creation, on resize) and  *)
(* calls the plugin hook with the chart's scale and area ----              *)
DrawIds == {NullId, {6}, {6, 9}}

JsonResolvedDraw == \E id \in DrawIds : Deliver(ResponseOf(id))

ChartDrawn ==
  \E id \in ChartIds, y \in YScales, hasArea \in BOOLEAN :
    /\ charts[id].state = "live"
    /\ lastDraw' = [canvas |-> charts[id].canvas, y |-> y, hasArea |-> hasArea,
                    lines |-> charts[id].lines,
                    strokes |-> afterDatasetsDraw(charts[id].lines, y, hasArea)]
    /\ UNCHANGED << tz, mounts, inFlight, tile, tables, charts,
                    tempChart, lightChart, touched, cycle, shown, intact, fails >>

NextDraw == Tick \/ FetchRejected \/ JsonRejected \/ JsonResolvedDraw \/ ChartDrawn

SpecDraw == Init /\ [][NextDraw]_vars

(* ======================= properties of the program ===================== *)

Canvases == {"temperature_chart", "light_chart"}

(* What the normalizer returns for the key and for the timestamp field of  *)
(* every pool record, in every zone                                        *)
Parsed ==
  [z \in TzOffsets |-> [i \in PoolIdx |->
     [key   |-> parseTimestampFlexible(Str(Pool[i].key), z),
      field |-> parseTimestampFlexible(Pool[i].v.timestamp, z)]]]

BothFail(i) == Parsed[tz][i].key = Null /\ Parsed[tz][i].field = Null

(* The time the resolution order assigns to record i *)
TimeOf(i) ==
  IF Parsed[tz][i].key # Null THEN Parsed[tz][i].key ELSE Parsed[tz][i].field

(* The records of the response the last cycle decoded *)
Given == IF cycle.resp \in DatasetIdx THEN cycle.resp ELSE {}

Resolving == {i \in Given : ~BothFail(i)}

LastMapped == IF cycle.resp \in ResponseIds THEN Decoded[tz][cycle.resp].mapped ELSE <<>>

LastWindow == IF cycle.resp \in ResponseIds THEN Decoded[tz][cycle.resp].entries ELSE <<>>

ShownWindow == IF shown \in ResponseIds THEN Decoded[tz][shown].entries ELSE <<>>

InWindow(i) == \E k \in 1..Len(LastWindow) : LastWindow[k].key = Pool[i].key

Completed == inFlight' < inFlight

Handle(canvas) == IF canvas = "temperature_chart" THEN tempChart ELSE lightChart

Live(canvas) ==
  {i \in ChartIds : charts[i].state = "live" /\ charts[i].canvas = canvas}

(* The page presents the window W *)
TileShows(e) ==
  tile = [latest_time        |-> << formatTsLong(e.dt, tz) >>,
          latest_temperature |-> << Text(e.v.temperature.n, "C") >>,
          latest_light       |-> << Text(e.v.light_lux.n, "lux") >>]

TableShows(t, key, unit, W) ==
  tables[t] = [header |-> << key >>,
               rows   |-> [k \in 1..Len(W) |-> TableRow(W[k], key, unit, tz)]]

ChartShows(canvas, key, W) ==
  /\ Handle(canvas) # 0
  /\ charts[Handle(canvas)].state = "live"
  /\ charts[Handle(canvas)].canvas = canvas
  /\ charts[Handle(canvas)].labels
       = Reverse([k \in 1..Len(W) |-> formatTsShort(W[k].dt, tz)])
  /\ charts[Handle(canvas)].datasets[1].data
       = Reverse([k \in 1..Len(W) |-> Metric(W[k].v, key)])

Shows(W) ==
  /\ TileShows(W[1])
  /\ TableShows("temperature_table", "temperature", "C", W)
  /\ TableShows("light_table", "light_lux", "lux", W)
  /\ ChartShows("temperature_chart", "temperature", W)
  /\ ChartShows("light_chart", "light_lux", W)

Blank ==
  /\ tile = [latest_time |-> <<>>, latest_temperature |-> <<>>, latest_light |-> <<>>]
  /\ \A t \in DOMAIN tables : tables[t] = EmptyTable
  /\ \A i \in ChartIds : charts[i] = FreeSlot
  /\ tempChart = 0 /\ lightChart = 0

(* ---------------------------- the Window ------------------------------- *)

UnitOf(key) == IF key = "temperature" THEN "C" ELSE "lux"

KeyOf(t) == IF t = "temperature_table" THEN "temperature" ELSE "light_lux"

ResolvingPool(z) ==
  {i \in PoolIdx : Parsed[z][i].key # Null \/ Parsed[z][i].field # Null}

EntryOf(i, z) ==
  [key |-> Pool[i].key, v |-> Pool[i].v,
   dt  |-> IF Parsed[z][i].key # Null THEN Parsed[z][i].key ELSE Parsed[z][i].field]

(* Every text a table, an axis or the tile can show for a record that      *)
(* resolves                                                                *)
ResolvingTexts ==
  [z \in TzOffsets |->
     [rows   |-> [key \in {"temperature", "light_lux"} |->
                    {TableRow(EntryOf(i, z), key, UnitOf(key), z) :
                       i \in {j \in ResolvingPool(z) : IsNumber(Metric(Pool[j].v, key))}}],
      labels |-> {formatTsShort(EntryOf(i, z).dt, z) : i \in ResolvingPool(z)},
      long   |-> {formatTsLong(EntryOf(i, z).dt, z) : i \in ResolvingPool(z)}]]

(* C4: whatever the response, the Window of a cycle holds at most LAST_N   *)
(* entries, each with a resolved time that is a valid date; a record whose *)
(* key and timestamp field both fail normalization is not in the Window,   *)
(* and every time shown by the tile, a table row or a chart axis is the    *)
(* time of a record that resolves, no more than LAST_N per surface.        *)
WindowBounded ==
  /\ Len(LastWindow) <= LAST_N
  /\ \A k \in 1..Len(LastWindow) : LastWindow[k].dt.kind = "date"
  /\ \A i \in Given : BothFail(i) => ~InWindow(i)
  /\ \A t \in DOMAIN tables :
       /\ Len(tables[t].rows) <= LAST_N
       /\ \A k \in 1..Len(tables[t].rows) :
            tables[t].rows[k] \in ResolvingTexts[tz].rows[KeyOf(t)]
  /\ \A i \in ChartIds :
       /\ Len(charts[i].labels) <= LAST_N
       /\ \A k \in 1..Len(charts[i].labels) :
            charts[i].labels[k] \in ResolvingTexts[tz].labels
  /\ \A k \in 1..Len(tile.latest_time) :
       tile.latest_time[k] \in ResolvingTexts[tz].long

(* A response of twenty records, three of them failing both ways, was      *)
(* rendered from a Window of exactly LAST_N entries                        *)
WindowBoundedWitness ==
  /\ cycle.resp = Bulk \cup {1, 2, 17, 18, 19, 20}
  /\ cycle.outcome = "rendered"
  /\ Len(LastWindow) = LAST_N
  /\ \E i \in Given : BothFail(i)

DistinctTimes ==
  \A i, j \in Resolving : i # j => TimeOf(i) # TimeOf(j)

(* C5: when the records of a response that resolve (V of them) have        *)
(* pairwise distinct times, the Window has min(V, LAST_N) entries, they    *)
(* are records of the response, strictly newest first, and every record    *)
(* left out is older than all of them; when their readings are numbers the *)
(* cycle renders: the tile shows the first entry, the table rows follow    *)
(* the Window's order, chart labels and series are the Window reversed.    *)
NewestFirst ==
  (cycle.resp \in DatasetIdx /\ DistinctTimes) =>
    /\ Len(LastWindow) = IF Cardinality(Resolving) < LAST_N
                           THEN Cardinality(Resolving) ELSE LAST_N
    /\ \A k \in 1..Len(LastWindow) :
         \E i \in Resolving : LastWindow[k] = EntryOf(i, tz)
    /\ \A j, k \in 1..Len(LastWindow) :
         j < k => Earlier(LastWindow[k].dt, LastWindow[j].dt)
    /\ \A i \in Resolving :
         ~InWindow(i) => \A k \in 1..Len(LastWindow) : Earlier(TimeOf(i), LastWindow[k].dt)
    /\ (Len(LastWindow) > 0 /\ AllNumeric(LastWindow)) =>
         cycle.outcome = "rendered" /\ Shows(LastWindow)

(* Fourteen records resolve, to distinct times: twelve were rendered *)
NewestFirstWitness ==
  /\ cycle.resp = Bulk
  /\ DistinctTimes
  /\ Cardinality(Resolving) > LAST_N
  /\ cycle.outcome = "rendered"
  /\ Len(LastWindow) = LAST_N

MappedOf(i) == LastMapped[CHOOSE k \in 1..Len(LastMapped) : LastMapped[k].key = Pool[i].key]

ResolvedByOrder(i) == MappedOf(i).dt = TimeOf(i)

(* C8 as stated: the time of a record is the key's whenever the key        *)
(* resolves and the timestamp field's otherwise, and the record is absent  *)
(* from the Window if and only if both fail.                               *)
DroppedIffBothFail ==
  \A i \in Given : ResolvedByOrder(i) /\ (~InWindow(i) <=> BothFail(i))

(* C8: the time of a record is the key's whenever the key resolves, the    *)
(* timestamp field's otherwise; the record passes the validity filter if   *)
(* and only if one of the two resolves; a record failing both is absent    *)
(* from the Window, and a record that resolves is absent only when the     *)
(* Window holds LAST_N entries none of which is older than it.             *)
ResolutionOrder ==
  \A i \in Given :
    /\ ResolvedByOrder(i)
    /\ KeepEntry(MappedOf(i)) <=> ~BothFail(i)
    /\ BothFail(i) => ~InWindow(i)
    /\ ~BothFail(i) =>
         \/ InWindow(i)
         \/ /\ Len(LastWindow) = LAST_N
            /\ \A k \in 1..Len(LastWindow) : ~Earlier(LastWindow[k].dt, TimeOf(i))

(* The Window holds a record whose key and timestamp field encode          *)
(* different times, with the key's time, and a record whose key fails,     *)
(* with the field's time; a record that resolves was truncated away.       *)
ResolutionOrderWitness ==
  /\ cycle.resp = Bulk
  /\ \E i \in Given : /\ InWindow(i)
                      /\ Parsed[tz][i].key # Null /\ Parsed[tz][i].field # Null
                      /\ Parsed[tz][i].key # Parsed[tz][i].field
  /\ \E i \in Given : InWindow(i) /\ Parsed[tz][i].key = Null
  /\ \E i \in Given : ~InWindow(i) /\ ~BothFail(i)

(* --------------------------- the normalizer ---------------------------- *)

IsLeap(y) == (y % 4 = 0 /\ y % 100 # 0) \/ y % 400 = 0

DaysInMonth(y, m) ==
  IF m = 2 THEN (IF IsLeap(y) THEN 29 ELSE 28)
  ELSE IF m \in {4, 6, 9, 11} THEN 30 ELSE 31

(* n holds day, month, year, hour, min, sec *)
OutOfCalendar(n) ==
  \/ n[2] \notin 1..12
  \/ n[1] \notin 1..DaysInMonth(n[3], n[2])
  \/ n[4] > 23 \/ n[5] > 59 \/ n[6] > 59

(* A string in neither encoding, or in the literal encoding with a         *)
(* component out of calendar range                                         *)
Malformed(s) ==
  LET t == Trim(s)
      m == SplitDash(t)
  IN  /\ ~MatchesEpoch(t)
      /\ \/ ~MatchesLiteral(m)
         \/ OutOfCalendar([i \in 1..6 |-> ParseIntSmall(m[i])])

MalformedKeys == {i \in PoolIdx : Malformed(Pool[i].key)}

(* C2 as stated: for every malformed string, one matching neither encoding *)
(* or one matching the literal pattern with a component out of calendar    *)
(* range, parseTimestampFlexible returns null.                             *)
MalformedIsNull ==
  \A i \in Given : i \in MalformedKeys => Parsed[tz][i].key = Null

(* ------------------------------ cycles --------------------------------- *)

(* A response that is null, holds no record, or holds only records that    *)
(* fail normalization both ways                                            *)
NoData(id) == id = NullId \/ (id \in DatasetIdx /\ \A i \in id : BothFail(i))

NoDataStep ==
  (Completed /\ cycle'.resp \in ResponseIds /\ NoData(cycle'.resp)) =>
    /\ cycle'.outcome = "no_data"
    /\ UNCHANGED page
    /\ touched' = {}

(* C6: a cycle whose response is null, empty, or holds only records that   *)
(* fail normalization ends as "no data" and writes nothing: the tile, both *)
(* tables, both chart handles and every chart instance stay as they were.  *)
NoDataChangesNothing == [][NoDataStep]_vars

(* A cycle found only records that fail normalization while the page       *)
(* showed an earlier response                                              *)
NoDataWitness ==
  /\ cycle.outcome = "no_data"
  /\ cycle.resp = {1, 17, 18}
  /\ shown # NoResponse
  /\ tempChart # 0 /\ lightChart # 0
  /\ ~Blank

OneLivePerCanvas ==
  \A canvas \in Canvases :
    /\ Cardinality(Live(canvas)) <= 1
    /\ Handle(canvas) = 0 => Live(canvas) = {}
    /\ Handle(canvas) # 0 => Live(canvas) = {Handle(canvas)}
    /\ canvas \in touched => Handle(canvas) # 0

(* C10: with every mount point present and every reading so far a number,  *)
(* whatever the overlap of the calls in flight and the order of their      *)
(* responses, the page is blank until the first render and from then on    *)
(* the tile, both tables and both charts present the Window of one and the *)
(* same response, with one live chart per canvas.                          *)
OneResponseShown ==
  (mounts = Mounts /\ intact) =>
    /\ IF shown = NoResponse THEN Blank ELSE Shows(ShownWindow)
    /\ OneLivePerCanvas

(* A cycle rendered while another call was in flight, over an earlier      *)
(* render                                                                  *)
OneResponseShownWitness ==
  /\ cycle.others >= 1
  /\ cycle.outcome = "rendered"
  /\ shown = cycle.resp
  /\ intact
  /\ tempChart = 3 /\ lightChart = 1

(* ----------------------- documents and failures ------------------------ *)

(* C1 as stated: in a cycle with a non-empty Window (of numeric readings), *)
(* every mount point the document offers is written, whichever mount point *)
(* is missing.                                                             *)
MissingMountSkipped ==
  (cycle.resp \in DatasetIdx /\ Len(LastWindow) > 0 /\ AllNumeric(LastWindow)) =>
    \A m \in mounts : m \in touched

DrawReplaces ==
  \A canvas \in Canvases :
    (Completed /\ canvas \in touched') =>
      /\ Handle(canvas)' # 0
      /\ charts'[Handle(canvas)'].state = "live"
      /\ Handle(canvas) # 0 =>
           /\ Handle(canvas)' # Handle(canvas)
           /\ ~(charts'[Handle(canvas)].state = "live"
                /\ charts'[Handle(canvas)].canvas = canvas)

HandleKept == \A canvas \in Canvases : Handle(canvas) # 0 => Handle(canvas)' # 0

(* C3: after any sequence of cycles a canvas has at most one live chart:   *)
(* none while its handle is null, exactly the one its handle holds once it *)
(* was drawn; a drawChart call that finds an instance in the handle leaves *)
(* that instance not live and stores a new, live one in the handle, and a  *)
(* handle never returns to null.                                           *)
ChartLifecycle == []OneLivePerCanvas /\ [][DrawReplaces /\ HandleKept]_vars

(* Both canvases were drawn again after a failed cycle *)
ChartLifecycleWitness ==
  /\ tempChart = 3 /\ lightChart = 1
  /\ fails > 0
  /\ Cardinality(Live("temperature_chart")) = 1
  /\ Cardinality(Live("light_chart")) = 1

FailureStep ==
  (Completed /\ cycle'.resp = NoResponse) => (UNCHANGED page /\ touched' = {})

RendersNormally ==
  (/\ fails > 0
   /\ mounts = Mounts
   /\ cycle.resp \in DatasetIdx
   /\ Len(LastWindow) > 0
   /\ AllNumeric(LastWindow)) => (cycle.outcome = "rendered" /\ Shows(LastWindow))

(* C7: a cycle whose fetch or decode is rejected writes nothing, neither a *)
(* surface nor a chart handle; the timer can always start the next call    *)
(* (as long as fewer than MaxInFlight are in flight); and after any number *)
(* of failed cycles a response with a non-empty Window of numeric readings *)
(* is rendered in full on a document with all its mount points.            *)
FailureIsSilent ==
  /\ [][FailureStep]_vars
  /\ [](inFlight < MaxInFlight => ENABLED Tick)
  /\ []RendersNormally

(* A response was rendered in full after MaxFails failed cycles, over an   *)
(* earlier render                                                          *)
FailureIsSilentWitness ==
  /\ fails = MaxFails
  /\ mounts = Mounts
  /\ cycle.outcome = "rendered"
  /\ cycle.resp = Bulk
  /\ tempChart = 3

(* --------------------------- threshold bands --------------------------- *)

BandsOf(canvas) ==
  IF canvas = "temperature_chart" THEN TEMPERATURE_THRESHOLDS ELSE LIGHT_THRESHOLDS

StrokesOf(band) ==
  {k \in 1..Len(lastDraw.strokes) :
     lastDraw.strokes[k].y = band.value /\ lastDraw.strokes[k].color = band.color}

LegendOf(id, band) ==
  {d \in 2..Len(charts[id].datasets) : charts[id].datasets[d].label = band.label}

(* C9: when the hook runs with a vertical range and a chart area, a band   *)
(* of the chart gets a stroke (exactly one) if and only if                 *)
(* y.min <= value <= y.max; and every live chart carries, next to its main *)
(* dataset, exactly one dataset per band, with the band's label and color  *)
(* and the single point NaN, whatever the range.                           *)
BandsDrawnInRange ==
  /\ (lastDraw.canvas # "" /\ lastDraw.y.present /\ lastDraw.hasArea) =>
       /\ \A b \in 1..Len(BandsOf(lastDraw.canvas)) :
            Cardinality(StrokesOf(BandsOf(lastDraw.canvas)[b]))
              = IF /\ lastDraw.y.min <= BandsOf(lastDraw.canvas)[b].value
                   /\ BandsOf(lastDraw.canvas)[b].value <= lastDraw.y.max
                  THEN 1 ELSE 0
       /\ \A k \in 1..Len(lastDraw.strokes) :
            \E b \in 1..Len(BandsOf(lastDraw.canvas)) :
              k \in StrokesOf(BandsOf(lastDraw.canvas)[b])
  /\ \A id \in ChartIds :
       charts[id].state = "live" =>
         /\ Len(charts[id].datasets) = 1 + Len(BandsOf(charts[id].canvas))
         /\ \A b \in 1..Len(BandsOf(charts[id].canvas)) :
              /\ Cardinality(LegendOf(id, BandsOf(charts[id].canvas)[b])) = 1
              /\ \A d \in LegendOf(id, BandsOf(charts[id].canvas)[b]) :
                   /\ charts[id].datasets[d].borderColor
                        = BandsOf(charts[id].canvas)[b].color
                   /\ charts[id].datasets[d].data = << NotANum >>

(* The temperature chart was drawn on the range 0..25: the band at 32 got  *)
(* no stroke, the bands at 25 and 18 one each, and the chart's legend      *)
(* still lists the band at 32.                                             *)
BandsDrawnInRangeWitness ==
  /\ lastDraw.canvas = "temperature_chart"
  /\ lastDraw.y = Scale(0, 25)
  /\ lastDraw.hasArea
  /\ Len(lastDraw.strokes) = 2
  /\ tempChart # 0
  /\ LegendOf(tempChart, TEMPERATURE_THRESHOLDS[1]) # {}
====
